---- MODULE Spec2Model ----
(***************************************************************************)
(* Timecard reconciliation: key normalisation, duplicate-key reporting,    *)
(* de-duplication by strategy (preprocess/inspect_clean_raw.py) and the    *)
(* merge of a corrected extract into the cleaned one                       *)
(* (preprocess/merge_corrected_data.py).                                   *)
(*                                                                         *)
(* A DataFrame is a sequence of rows.  A row is a record holding one field *)
(* per column plus the field "index", the pandas index label of the row.   *)
(* A text cell is [kind, s] with s a sequence of character codes; a time   *)
(* cell is [kind, day, minute, second].  kind = "null" is a missing cell   *)
(* (NaN / NaT / <NA>), kind = "bad" is text that does not parse as a time. *)
(***************************************************************************)
EXTENDS Integers, Sequences, FiniteSets, TLC

VARIABLES
    USE_THREE_KEY,   \* module constant of inspect_clean_raw (configuration)
    DEDUP_STRATEGY,  \* module constant of inspect_clean_raw (configuration)
    pc,              \* position of the running routine
    df,              \* the loaded raw / corrected dataset
    df_clean,        \* the dataset as the cleaning steps transform it
    dup_df,          \* what duplicate_key_report returned
    dedup_arg,       \* the frame deduplicate_by_strategy was called with
    aux_report,      \* the duplicate-key audit report on disk (<<>> = none)
    cleaned_file,    \* the cleaned dataset on disk (<<>> = not written)
    error,           \* the exception that ended the run (NoError = none)
    df_clean_raw,    \* merge_data: the cleaned dataset as loaded (the base)
    df_base,         \* merge_data: the base after normalize_key_columns
    df_corr,         \* merge_data: the cleaned correction after normalize_key_columns
    merged,          \* merge_data: what append_and_deduplicate returned
    df_again,        \* a normalised frame put through the normaliser once more
    df_dq,           \* check_dq_all: the frame as its steps transform it
    flag_arg,        \* the frame flag_missing_critical_fields was called with
    incomplete_report \* the incomplete-rows report on disk

vars == <<USE_THREE_KEY, DEDUP_STRATEGY, pc, df, df_clean, dup_df, dedup_arg,
          aux_report, cleaned_file, error, df_clean_raw, df_base, df_corr, merged,
          df_again, df_dq, flag_arg, incomplete_report>>

config == <<USE_THREE_KEY, DEDUP_STRATEGY>>
merge_vars == <<df_clean_raw, df_base, df_corr, merged>>
dq_vars == <<df_again, df_dq, flag_arg, incomplete_report>>

\* ------------------------------------------------------------------ bounds
MaxRows == 3
MaxBaseRows == 2
MaxCorrRows == 2

\* ------------------------------------------------------------------ cells
NullText == [kind |-> "null", s |-> <<>>]
Str(s) == [kind |-> "str", s |-> s]
NaT == [kind |-> "null", day |-> 0, minute |-> 0, second |-> 0]
Ts(d, m, s) == [kind |-> "ts", day |-> d, minute |-> m, second |-> s]
BadTime == [kind |-> "bad", day |-> 0, minute |-> 0, second |-> 0]

isna(v) == v.kind = "null"
notna(v) == ~isna(v)
IsText(v) == "s" \in DOMAIN v

Range(f) == {f[i] : i \in DOMAIN f}

\* ------------------------------------------------------- configuration
KEYS ==
    IF USE_THREE_KEY THEN <<"employee_id", "date", "clock_in">>
    ELSE <<"employee_id", "date">>

CRITICAL_COLS ==
    <<"clock_in", "clock_out", "lunch_start", "lunch_end",
      "second_lunch_start", "second_lunch_end",
      "wage_rate", "overtime_rate", "doubletime_rate",
      "pay_date", "first_meal_waiver_signed", "second_meal_waiver_signed",
      "employment_status", "exempt_status">>

\* ------------------------------------------------------- text helpers
\* str.upper on one character code (ASCII letters).
UpperChar(c) == IF c >= 97 /\ c <= 122 THEN c - 32 ELSE c
upper(s) == [i \in 1..Len(s) |-> UpperChar(s[i])]

\* Whitespace as str.strip() understands it (space, tab, LF, CR).
IsSpace(c) == c \in {32, 9, 10, 13}

RECURSIVE lstrip(_)
lstrip(s) ==
    IF s = <<>> THEN <<>>
    ELSE IF IsSpace(Head(s)) THEN lstrip(Tail(s)) ELSE s

RECURSIVE rstrip(_)
rstrip(s) ==
    IF s = <<>> THEN <<>>
    ELSE IF IsSpace(s[Len(s)]) THEN rstrip(SubSeq(s, 1, Len(s) - 1)) ELSE s

strip(s) == rstrip(lstrip(s))

\* Series.astype(str): a missing cell becomes the text "nan".
astype_str(v) == IF isna(v) THEN Str(<<110, 97, 110>>) ELSE v

\* Series.astype("string"): a missing cell stays missing (<NA>).
astype_string(v) == v

\* .str.strip().str.upper() on a cell; the .str accessor skips missing cells.
str_strip_upper(v) == IF isna(v) THEN v ELSE Str(upper(strip(v.s)))

\* ------------------------------------------------------- time helpers
\* pd.to_datetime(errors="coerce"): what does not parse becomes NaT.
to_datetime(v) == IF v.kind = "ts" THEN v ELSE NaT

\* .dt.normalize(): midnight of the same day.
dt_normalize(t) == IF isna(t) THEN NaT ELSE [t EXCEPT !.minute = 0, !.second = 0]

\* Variant: the seconds are kept.
dt_keep_seconds(t) == t

\* .dt.floor("min"): drop the seconds.
dt_floor_min(t) == IF isna(t) THEN NaT ELSE [t EXCEPT !.second = 0]

\* ------------------------------------------------------- row helpers
Columns(row) == DOMAIN row \ {"index"}

\* The values of the subset columns of a row, as pandas compares them in
\* duplicated / drop_duplicates (missing cells compare equal to each other).
KeyOf(row, subset) == [k \in 1..Len(subset) |-> row[subset[k]]]

\* The rows of frame at the given positions, in frame order.
SelectRows(frame, positions) ==
    LET F[i \in 0..Len(frame)] ==
            IF i = 0 THEN <<>>
            ELSE IF i \in positions THEN Append(F[i - 1], frame[i]) ELSE F[i - 1]
    IN F[Len(frame)]

\* DataFrame.duplicated(subset, keep=False): the mask, as a set of positions.
duplicated_keep_false(frame, subset) ==
    {i \in 1..Len(frame) :
        \E j \in 1..Len(frame) :
            j # i /\ KeyOf(frame[j], subset) = KeyOf(frame[i], subset)}

\* Variant: keep=False, every row of a duplicate group is dropped.
drop_duplicates_keep_none(frame, subset) ==
    SelectRows(frame,
        {i \in 1..Len(frame) :
            ~\E j \in 1..Len(frame) :
                j # i /\ KeyOf(frame[j], subset) = KeyOf(frame[i], subset)})

\* Variant: keep="first".
drop_duplicates_keep_first(frame, subset) ==
    SelectRows(frame,
        {i \in 1..Len(frame) :
            ~\E j \in 1..(i - 1) :
                KeyOf(frame[j], subset) = KeyOf(frame[i], subset)})

\* DataFrame.drop_duplicates(subset, keep="last").
drop_duplicates_keep_last(frame, subset) ==
    SelectRows(frame,
        {i \in 1..Len(frame) :
            ~\E j \in (i + 1)..Len(frame) :
                KeyOf(frame[j], subset) = KeyOf(frame[i], subset)})

\* ------------------------------------------------------- ordering
\* Python's str ordering: lexicographic on the character codes.
TextLess(s, t) ==
    \E i \in 1..Len(t) :
        /\ \A j \in 1..(i - 1) : j <= Len(s) /\ s[j] = t[j]
        /\ i - 1 <= Len(s)
        /\ (i > Len(s) \/ s[i] < t[i])

TimeLess(a, b) ==
    \/ a.day < b.day
    \/ a.day = b.day /\ a.minute < b.minute
    \/ a.day = b.day /\ a.minute = b.minute /\ a.second < b.second

\* Order of two cells of one column under sort_values (na_position="last").
CellLess(a, b) ==
    IF isna(a) THEN FALSE
    ELSE IF isna(b) THEN TRUE
    ELSE IF IsText(a) THEN TextLess(a.s, b.s)
    ELSE TimeLess(a, b)

\* Lexicographic order of two key tuples.
KeyLess(k1, k2) ==
    \E i \in 1..Len(k1) :
        /\ \A j \in 1..(i - 1) : k1[j] = k2[j]
        /\ CellLess(k1[i], k2[i])

head(frame, n) == SubSeq(frame, 1, IF Len(frame) < n THEN Len(frame) ELSE n)

\* ------------------------------------------------------- text normaliser
\* Each table is a set of <<cleaned spelling, canonical value>> pairs.
MAPPINGS ==
    [employment_status |->
        {<<<<102, 117, 108, 108, 116, 105, 109, 101>>,   \* fulltime
           <<102, 117, 108, 108, 95, 116, 105, 109, 101>>>>,
         <<<<102, 95, 116>>,   \* f_t
           <<102, 117, 108, 108, 95, 116, 105, 109, 101>>>>,
         <<<<112, 116>>,   \* pt
           <<112, 97, 114, 116, 95, 116, 105, 109, 101>>>>,
         <<<<112, 97, 114, 116, 116, 105, 109, 101>>,   \* parttime
           <<112, 97, 114, 116, 95, 116, 105, 109, 101>>>>},
     exempt_status |->
        {<<<<110, 111, 110, 101, 120, 101, 109, 112, 116>>,   \* nonexempt
           <<110, 111, 110, 95, 101, 120, 101, 109, 112, 116>>>>,
         <<<<110, 111, 110, 45, 101, 120, 101, 109, 112, 116>>,   \* non-exempt
           <<110, 111, 110, 95, 101, 120, 101, 109, 112, 116>>>>,
         <<<<110, 95, 101, 120>>,   \* n_ex
           <<110, 111, 110, 95, 101, 120, 101, 109, 112, 116>>>>,
         <<<<110, 101>>,   \* ne
           <<110, 111, 110, 95, 101, 120, 101, 109, 112, 116>>>>}]

\* '-', ' ' and '/' become '_' (three str.replace calls).
ReplaceSeparators(s) ==
    [i \in 1..Len(s) |-> IF s[i] \in {45, 32, 47} THEN 95 ELSE s[i]]

LowerChar(c) == IF c >= 65 /\ c <= 90 THEN c + 32 ELSE c
lower(s) == [i \in 1..Len(s) |-> LowerChar(s[i])]

\* Variant: the table is not consulted.
keep_spelling(s, map_dict) == s

\* Series.replace(map_dict): a value equal to a key of the table is replaced.
replace_map(s, map_dict) ==
    IF \E p \in map_dict : p[1] = s
    THEN (CHOOSE p \in map_dict : p[1] = s)[2]
    ELSE s

\* Variant: the table is consulted before the text is cleaned.
standardize_cell_map_first(v, map_dict) ==
    IF isna(v) THEN v
    ELSE Str(ReplaceSeparators(lower(strip(replace_map(v.s, map_dict)))))

\* One cell of a configured column; the .str accessor skips missing cells.
standardize_cell(v, map_dict) ==
    IF isna(v) THEN v
    ELSE LET c == ReplaceSeparators(lower(strip(v.s)))
         IN Str(IF map_dict # {} THEN replace_map(c, map_dict) ELSE c)

standardize_text_columns(frame, mappings) ==
    [i \in 1..Len(frame) |->
        [c \in DOMAIN frame[i] |->
            IF c \in DOMAIN mappings
            THEN standardize_cell(frame[i][c], mappings[c])
            ELSE frame[i][c]]]

\* ------------------------------------------------------- key normaliser
\* normalize_key_columns of inspect_clean_raw.
normalize_key_row(row) ==
    [c \in DOMAIN row |->
        IF c = "employee_id" THEN str_strip_upper(astype_str(row[c]))
        ELSE IF c = "date" THEN dt_normalize(to_datetime(row[c]))
        ELSE IF USE_THREE_KEY /\ c = "clock_in" THEN dt_floor_min(to_datetime(row[c]))
        ELSE row[c]]

normalize_key_columns(frame) ==
    [i \in 1..Len(frame) |-> normalize_key_row(frame[i])]

\* ------------------------------------------------------- duplicate report
ErrorPreviewRows == 15

\* df.loc[mask, subset].value_counts().reset_index(name="count")
\*   .sort_values("count", ascending=False)
\* DataFrame.value_counts leaves out every row that has a missing cell
\* (dropna=True); the entries come by descending count, then by key.
value_counts(frame, mask, subset) ==
    LET rows == {i \in mask : \A k \in 1..Len(subset) : notna(frame[i][subset[k]])}
        keys == {KeyOf(frame[i], subset) : i \in rows}
        entry(k) ==
            [key |-> k,
             count |-> Cardinality({i \in rows : KeyOf(frame[i], subset) = k})]
        entries == {entry(k) : k \in keys}
        before(a, b) ==
            \/ a.count > b.count
            \/ a.count = b.count /\ KeyLess(a.key, b.key)
    IN [i \in 1..Cardinality(entries) |->
           CHOOSE x \in entries :
               Cardinality({y \in entries : before(y, x)}) = i - 1]

\* The dataframe duplicate_key_report returns.
duplicate_key_report(frame) ==
    value_counts(frame, duplicated_keep_false(frame, KEYS), KEYS)

\* total_dups of duplicate_key_report: dup_mask.sum().
total_dups(frame) == Cardinality(duplicated_keep_false(frame, KEYS))

\* ------------------------------------------------------- de-duplication
score_name == "__nn_score__"
orig_idx_name == "__orig_idx__"

present_cols(frame) ==
    {c \in Range(CRITICAL_COLS) : \A i \in 1..Len(frame) : c \in Columns(frame[i])}

\* work[present_cols].notna().sum(axis=1), for one row.
nn_score(row, cols) == Cardinality({c \in cols : notna(row[c])})

\* Variant: the score column left out of the sort.
work_order_without_score(a, b) ==
    \/ KeyLess(KeyOf(a, KEYS), KeyOf(b, KEYS))
    \/ /\ ~KeyLess(KeyOf(b, KEYS), KeyOf(a, KEYS))
       /\ a["__orig_idx__"] < b["__orig_idx__"]

\* work.sort_values([*KEYS, score_name, "__orig_idx__"]): the order of two rows.
work_order(a, b) ==
    \/ KeyLess(KeyOf(a, KEYS), KeyOf(b, KEYS))
    \/ /\ ~KeyLess(KeyOf(b, KEYS), KeyOf(a, KEYS))
       /\ \/ a[score_name] < b[score_name]
          \/ a[score_name] = b[score_name] /\ a[orig_idx_name] < b[orig_idx_name]

\* work.sort_values(...): insertion of the rows one by one at their place.
sort_values(work) ==
    LET Insert(sorted, x) ==
            LET p == Cardinality({i \in 1..Len(sorted) : ~work_order(x, sorted[i])})
            IN SubSeq(sorted, 1, p) \o <<x>> \o SubSeq(sorted, p + 1, Len(sorted))
        F[i \in 0..Len(work)] ==
            IF i = 0 THEN <<>> ELSE Insert(F[i - 1], work[i])
    IN F[Len(work)]

\* Variant: the helper columns are left in.
drop_no_columns(frame, cols) == frame

\* DataFrame.drop(columns=cols).
drop_columns(frame, cols) ==
    [i \in 1..Len(frame) |-> [c \in DOMAIN frame[i] \ cols |-> frame[i][c]]]

_keep_best_non_nulls(frame) ==
    LET cols == present_cols(frame)
        work == [i \in 1..Len(frame) |->
                    (score_name :> nn_score(frame[i], cols))
                    @@ (orig_idx_name :> (i - 1))
                    @@ frame[i]]
        sorted == sort_values(work)
    IN drop_columns(drop_duplicates_keep_last(sorted, KEYS),
                    {score_name, orig_idx_name})

NoError == [type |-> "none", what |-> "", examples |-> <<>>]
Return(value) == [raised |-> FALSE, value |-> value, exc |-> NoError]
Raise(exc) == [raised |-> TRUE, value |-> <<>>, exc |-> exc]

deduplicate_by_strategy(frame) ==
    LET dup_mask == duplicated_keep_false(frame, KEYS)
    IN IF dup_mask = {} THEN Return(frame)
       ELSE IF DEDUP_STRATEGY = "error" THEN
           Raise([type |-> "ValueError",
                  what |-> "duplicate keys detected",
                  examples |-> head(value_counts(frame, dup_mask, KEYS),
                                    ErrorPreviewRows)])
       ELSE IF DEDUP_STRATEGY = "keep_last" THEN
           Return(drop_duplicates_keep_last(frame, KEYS))
       ELSE IF DEDUP_STRATEGY = "keep_best_non_nulls" THEN
           Return(_keep_best_non_nulls(frame))
       ELSE Raise([type |-> "ValueError",
                   what |-> "Unknown DEDUP_STRATEGY",
                   examples |-> <<>>])

\* ------------------------------------------------------- inputs
\* "keep_first" stands for any value the strategy switch does not recognise.
Strategies == {"error", "keep_last", "keep_best_non_nulls", "keep_first"}

RawRows ==
    [employee_id : {Str(<<101, 49>>), Str(<<69, 50, 32>>)},   \* "e1", "E2 "
     date : {Ts(1, 0, 0)},
     clock_in : {BadTime, Ts(1, 480, 30)},
     clock_out : {NaT, Ts(1, 1020, 0)}]

\* A frame as read_csv hands it over: a RangeIndex 0..n-1 over the rows.
WithRangeIndex(rows) ==
    [i \in 1..Len(rows) |-> ("index" :> (i - 1)) @@ rows[i]]

FramesOf(rowset, n_max) ==
    UNION {{WithRangeIndex(rows) : rows \in [1..n -> rowset]} : n \in 0..n_max}

NoFile == [written |-> FALSE, content |-> <<>>]
File(content) == [written |-> TRUE, content |-> content]

\* mainIO.save_aux_report: the audit-report writer; the file it leaves.
save_aux_report(report) == File(report)

\* mainIO.save_cleaned_raw_data: the cleaned-dataset writer; the file it leaves.
save_cleaned_raw_data(frame) == File(frame)

\* ------------------------------------------------------- initial_inspection
Init ==
    /\ USE_THREE_KEY \in BOOLEAN
    /\ DEDUP_STRATEGY \in Strategies
    /\ df \in FramesOf(RawRows, MaxRows)
    /\ pc = "loaded"
    /\ df_clean = <<>>
    /\ dup_df = <<>>
    /\ dedup_arg = <<>>
    /\ aux_report = NoFile
    /\ cleaned_file = NoFile
    /\ error = NoError
    /\ df_clean_raw = <<>>
    /\ df_base = <<>>
    /\ df_corr = <<>>
    /\ merged = <<>>
    /\ df_again = <<>>
    /\ df_dq = <<>>
    /\ flag_arg = <<>>
    /\ incomplete_report = NoFile

\* df_clean = standardize_text_columns(df, MAPPINGS)
\* df_clean = normalize_key_columns(df_clean)
StandardizeAndNormalize ==
    /\ pc = "loaded"
    /\ df_clean' = normalize_key_columns(standardize_text_columns(df, MAPPINGS))
    /\ pc' = "normalized"
    /\ UNCHANGED <<config, df, dup_df, dedup_arg, aux_report, cleaned_file, error,
                   merge_vars, dq_vars>>

\* duplicate_key_report(df_clean, export_csv=True, client_name, filename):
\* with duplicate rows the report is handed to save_aux_report, whose failure
\* is caught and only printed.
DuplicateKeyReport(save_fails) ==
    /\ pc = "normalized"
    /\ dup_df' = duplicate_key_report(df_clean)
    /\ IF total_dups(df_clean) > 0 /\ ~save_fails
       THEN aux_report' = save_aux_report(dup_df')
       ELSE aux_report' = aux_report
    /\ pc' = "reported"
    /\ UNCHANGED <<config, df, df_clean, dedup_arg, cleaned_file, error, merge_vars, dq_vars>>

\* df_clean = deduplicate_by_strategy(df_clean, ...)
Deduplicate ==
    /\ pc = "reported"
    /\ dedup_arg' = df_clean
    /\ LET r == deduplicate_by_strategy(df_clean)
       IN IF r.raised
          THEN /\ error' = r.exc
               /\ pc' = "failed"
               /\ UNCHANGED df_clean
          ELSE /\ df_clean' = r.value
               /\ pc' = "deduped"
               /\ UNCHANGED error
    /\ UNCHANGED <<config, df, dup_df, aux_report, cleaned_file, merge_vars, dq_vars>>

\* mainIO.save_cleaned_raw_data(df_clean, client_name, filename)
SaveCleaned ==
    /\ pc = "deduped"
    /\ cleaned_file' = save_cleaned_raw_data(df_clean)
    /\ pc' = "saved"
    /\ UNCHANGED <<config, df, df_clean, dup_df, dedup_arg, aux_report, error,
                   merge_vars, dq_vars>>

Next ==
    \/ StandardizeAndNormalize
    \/ \E save_fails \in BOOLEAN : DuplicateKeyReport(save_fails)
    \/ Deduplicate
    \/ SaveCleaned

Spec == Init /\ [][Next]_vars

\* ------------------------------------------------------- merge_data
\* KEYS of merge_corrected_data.
MERGE_KEYS == <<"employee_id", "date", "clock_in">>

\* normalize_key_columns of merge_corrected_data.
merge_normalize_key_row(row) ==
    [c \in DOMAIN row |->
        IF c = "employee_id" THEN str_strip_upper(astype_string(row[c]))
        ELSE IF c = "date" THEN dt_normalize(to_datetime(row[c]))
        ELSE IF c = "clock_in" THEN dt_floor_min(to_datetime(row[c]))
        ELSE row[c]]

merge_normalize_key_columns(frame) ==
    [i \in 1..Len(frame) |-> merge_normalize_key_row(frame[i])]

\* DataFrame.reset_index(drop=True): the labels become 0..n-1.
reset_index(frame) ==
    [i \in 1..Len(frame) |->
        [c \in DOMAIN frame[i] |-> IF c = "index" THEN i - 1 ELSE frame[i][c]]]

\* Variant: the frames concatenated in the other order.
concat_swapped(a, b) == reset_index(b \o a)

\* pd.concat([a, b], ignore_index=True)
concat(a, b) == reset_index(a \o b)

append_and_deduplicate(clean, corr) ==
    reset_index(drop_duplicates_keep_last(concat(clean, corr), MERGE_KEYS))

\* The corrected extract as loaded (raw spellings).
CorrRows ==
    [employee_id : {Str(<<101, 49>>)},                 \* "e1"
     date : {Ts(1, 0, 0)},
     clock_in : {BadTime, Ts(1, 480, 30)},
     clock_out : {NaT, Ts(1, 1080, 0)}]

\* The cleaned dataset as loaded: what an earlier cleaning run under the same
\* configuration saved, so no two of its rows share a composite key.
BaseRows ==
    [employee_id : {Str(<<69, 49>>)},                  \* "E1"
     date : {Ts(1, 0, 0)},
     clock_in : {NaT, Ts(1, 480, 0), Ts(1, 540, 0)},
     clock_out : {NaT, Ts(1, 1020, 0)}]

BaseFrames ==
    {f \in FramesOf(BaseRows, MaxBaseRows) : duplicated_keep_false(f, KEYS) = {}}

InitMerge ==
    /\ USE_THREE_KEY \in BOOLEAN
    /\ DEDUP_STRATEGY \in Strategies
    /\ df \in FramesOf(CorrRows, MaxCorrRows)
    /\ df_clean_raw \in BaseFrames
    /\ pc = "loaded"
    /\ df_clean = <<>>
    /\ dup_df = <<>>
    /\ dedup_arg = <<>>
    /\ aux_report = NoFile
    /\ cleaned_file = NoFile
    /\ error = NoError
    /\ df_base = <<>>
    /\ df_corr = <<>>
    /\ merged = <<>>
    /\ df_again = <<>>
    /\ df_dq = <<>>
    /\ flag_arg = <<>>
    /\ incomplete_report = NoFile

\* df_clean = normalize_key_columns(df_clean_raw)
\* df_corr  = normalize_key_columns(df_corr_clean)
\* merged = append_and_deduplicate(df_clean, df_corr)
AppendAndDeduplicate ==
    /\ pc = "deduped"
    /\ df_base' = merge_normalize_key_columns(df_clean_raw)
    /\ df_corr' = merge_normalize_key_columns(df_clean)
    /\ merged' = append_and_deduplicate(df_base', df_corr')
    /\ pc' = "merged"
    /\ UNCHANGED <<config, df, df_clean, dup_df, dedup_arg, aux_report,
                   cleaned_file, error, df_clean_raw, dq_vars>>

\* mainIO.save_cleaned_raw_data(merged, client_name, proc_filename)
SaveMerged ==
    /\ pc = "merged"
    /\ cleaned_file' = save_cleaned_raw_data(merged)
    /\ pc' = "saved"
    /\ UNCHANGED <<config, df, df_clean, dup_df, dedup_arg, aux_report, error,
                   merge_vars, dq_vars>>

\* merge_data: clean_corrected_data (the three cleaning steps), then the merge.
NextMerge ==
    \/ StandardizeAndNormalize
    \/ \E save_fails \in BOOLEAN : DuplicateKeyReport(save_fails)
    \/ Deduplicate
    \/ AppendAndDeduplicate
    \/ SaveMerged

SpecMerge == InitMerge /\ [][NextMerge]_vars

\* ------------------------------------------------------- normalisers alone
\* One raw record in every spelling the normalisers distinguish: employee ids
\* in mixed case, padded or missing; dates with a time of day or unparsable;
\* clock-ins with seconds or unparsable; status texts that are table keys
\* after cleaning, that are not, or that are missing.
NormRows ==
    [employee_id : {Str(<<101, 49>>),                  \* "e1"
                    Str(<<32, 69, 49, 32>>),           \* " E1 "
                    NullText},
     date : {Ts(1, 0, 0), Ts(1, 615, 0), BadTime},
     clock_in : {Ts(1, 480, 0), Ts(1, 480, 30), BadTime},
     employment_status :
        {NullText,
         Str(<<80, 84>>),                              \* "PT"
         Str(<<32, 70, 47, 84>>),                      \* " F/T"
         Str(<<70, 117, 108, 108, 32, 84, 105, 109, 101>>),   \* "Full Time"
         Str(<<116, 101, 109, 112, 32>>)},             \* "temp "
     exempt_status :
        {NullText,
         Str(<<78, 69>>),                              \* "NE"
         Str(<<78, 111, 110, 45, 69, 120, 101, 109, 112, 116>>),  \* "Non-Exempt"
         Str(<<110, 32, 101, 120>>)}]                  \* "n ex"

InitNorm ==
    /\ USE_THREE_KEY \in BOOLEAN
    /\ DEDUP_STRATEGY = "keep_best_non_nulls"
    /\ df \in {WithRangeIndex(<<r>>) : r \in NormRows}
    /\ pc = "loaded"
    /\ df_clean = <<>>
    /\ dup_df = <<>>
    /\ dedup_arg = <<>>
    /\ aux_report = NoFile
    /\ cleaned_file = NoFile
    /\ error = NoError
    /\ df_clean_raw = <<>>
    /\ df_base = <<>>
    /\ df_corr = <<>>
    /\ merged = <<>>
    /\ df_again = <<>>
    /\ df_dq = <<>>
    /\ flag_arg = <<>>
    /\ incomplete_report = NoFile

\* df_clean = standardize_text_columns(df, MAPPINGS)
StandardizeText ==
    /\ pc = "loaded"
    /\ df_clean' = standardize_text_columns(df, MAPPINGS)
    /\ pc' = "standardized"
    /\ UNCHANGED <<config, df, dup_df, dedup_arg, aux_report, cleaned_file, error,
                   merge_vars, dq_vars>>

\* df_clean = normalize_key_columns(df_clean)
NormalizeKeys ==
    /\ pc = "standardized"
    /\ df_clean' = normalize_key_columns(df_clean)
    /\ pc' = "normalized"
    /\ UNCHANGED <<config, df, dup_df, dedup_arg, aux_report, cleaned_file, error,
                   merge_vars, dq_vars>>

\* The two cleaning steps run on a dataset they have already cleaned.
NormalizeAgain ==
    /\ pc = "normalized"
    /\ df_again' = normalize_key_columns(standardize_text_columns(df_clean, MAPPINGS))
    /\ pc' = "renormalized"
    /\ UNCHANGED <<config, df, df_clean, dup_df, dedup_arg, aux_report, cleaned_file,
                   error, merge_vars, flag_arg, df_dq, incomplete_report>>

\* df_corr = normalize_key_columns(df_corr_clean) of merge_data
MergeNormalizeKeys ==
    /\ pc = "loaded"
    /\ df_corr' = merge_normalize_key_columns(df)
    /\ pc' = "merge_normalized"
    /\ UNCHANGED <<config, df, df_clean, dup_df, dedup_arg, aux_report, cleaned_file,
                   error, df_clean_raw, df_base, merged, dq_vars>>

\* merge_data on a dataset an earlier merge saved: its keys are normalised again.
MergeNormalizeAgain ==
    /\ pc = "merge_normalized"
    /\ df_again' = merge_normalize_key_columns(df_corr)
    /\ pc' = "merge_renormalized"
    /\ UNCHANGED <<config, df, df_clean, dup_df, dedup_arg, aux_report, cleaned_file,
                   error, merge_vars, flag_arg, df_dq, incomplete_report>>

NextNorm ==
    \/ StandardizeText
    \/ NormalizeKeys
    \/ NormalizeAgain
    \/ MergeNormalizeKeys
    \/ MergeNormalizeAgain

SpecNorm == InitNorm /\ [][NextNorm]_vars

\* ------------------------------------------------------- key spellings
MaxKeyRows == 2

\* Raw shifts whose key fields come in several spellings of the same value:
\* the id in another letter case or padded, the date with a time of day, the
\* clock-in with seconds; a second employee for contrast.
KeyRows ==
    [employee_id : {Str(<<101, 49>>),                  \* "e1"
                    Str(<<32, 69, 49, 32>>),           \* " E1 "
                    Str(<<69, 50>>)},                  \* "E2"
     date : {Ts(1, 0, 0), Ts(1, 615, 0)},
     clock_in : {Ts(1, 480, 0), Ts(1, 480, 30)},
     clock_out : {Ts(1, 1020, 0)}]

InitKeys ==
    /\ USE_THREE_KEY \in BOOLEAN
    /\ DEDUP_STRATEGY \in Strategies
    /\ df \in FramesOf(KeyRows, MaxKeyRows)
    /\ pc = "loaded"
    /\ df_clean = <<>>
    /\ dup_df = <<>>
    /\ dedup_arg = <<>>
    /\ aux_report = NoFile
    /\ cleaned_file = NoFile
    /\ error = NoError
    /\ df_clean_raw = <<>>
    /\ df_base = <<>>
    /\ df_corr = <<>>
    /\ merged = <<>>
    /\ df_again = <<>>
    /\ df_dq = <<>>
    /\ flag_arg = <<>>
    /\ incomplete_report = NoFile

SpecKeys == InitKeys /\ [][Next]_vars

\* ------------------------------------------------------- data quality check
\* Numeric, boolean and issue-list cells.
Num(n) == [kind |-> "num", n |-> n]
NaN == [kind |-> "null", n |-> 0]
Bool(b) == [kind |-> "bool", b |-> b]
NullBool == [kind |-> "null", b |-> FALSE]
IssueList(codes) == [kind |-> "list", codes |-> codes]
None == [kind |-> "null", codes |-> <<>>]

\* row.get(col): None when the row has no such column.
get(row, col) == IF col \in DOMAIN row THEN row[col] ELSE None

\* th.convert_dates_and_datetimes(df, date_cols, datetime_cols)
convert_dates_and_datetimes(frame, date_cols, datetime_cols) ==
    [i \in 1..Len(frame) |->
        [c \in DOMAIN frame[i] |->
            IF c \in date_cols THEN dt_normalize(to_datetime(frame[i][c]))
            ELSE IF c \in datetime_cols THEN to_datetime(frame[i][c])
            ELSE frame[i][c]]]

date_and_time_conversions(frame) ==
    convert_dates_and_datetimes(frame, {"date", "pay_date"},
        {"clock_in", "clock_out", "lunch_start", "lunch_end"})

\* Series.fillna(False) on one cell.
fillna_false(v) == IF isna(v) THEN Bool(FALSE) ELSE v

\* Variant: the waiver columns are left as they are.
keep_missing_waivers(frame) == frame

fill_missing_waivers_with_false(frame) ==
    [i \in 1..Len(frame) |->
        [c \in DOMAIN frame[i] |->
            IF c \in {"first_meal_waiver_signed", "second_meal_waiver_signed"}
            THEN fillna_false(frame[i][c])
            ELSE frame[i][c]]]

\* One "if ...: row_issues.append(code)" of the flagger.
append_if(cond, code) == IF cond THEN <<code>> ELSE <<>>

\* Variant: a missing lunch_end is reported whether or not the lunch started.
row_issues_any_lunch_end(row) ==
    append_if(isna(get(row, "clock_in")), "missing clock_in")
    \o append_if(isna(get(row, "clock_out")), "missing clock_out")
    \o append_if(isna(get(row, "lunch_end")), "missing lunch_end (partial lunch)")
    \o append_if(notna(get(row, "lunch_end")) /\ isna(get(row, "lunch_start")),
                 "missing lunch_start (partial lunch)")
    \o append_if(notna(get(row, "second_lunch_start"))
                    /\ isna(get(row, "second_lunch_end")),
                 "missing second_lunch_end (partial second lunch)")
    \o append_if(notna(get(row, "second_lunch_end"))
                    /\ isna(get(row, "second_lunch_start")),
                 "missing second_lunch_start (partial second lunch)")
    \o append_if(isna(get(row, "wage_rate")), "missing wage_rate")
    \o append_if(isna(get(row, "total_pay_actual")), "missing total_pay_actual")
    \o append_if(isna(get(row, "pay_date")), "missing pay_date")
    \o append_if(isna(get(row, "employment_status")), "missing employment_status")
    \o append_if(isna(get(row, "exempt_status")), "missing exempt_status")
    \o append_if(isna(get(row, "employee_id")), "missing employee_id")
    \o append_if(isna(get(row, "date")), "missing work date")

\* The body of the flagger's loop: the codes appended for one row.
row_issues(row) ==
    append_if(isna(get(row, "clock_in")), "missing clock_in")
    \o append_if(isna(get(row, "clock_out")), "missing clock_out")
    \o append_if(notna(get(row, "lunch_start")) /\ isna(get(row, "lunch_end")),
                 "missing lunch_end (partial lunch)")
    \o append_if(notna(get(row, "lunch_end")) /\ isna(get(row, "lunch_start")),
                 "missing lunch_start (partial lunch)")
    \o append_if(notna(get(row, "second_lunch_start"))
                    /\ isna(get(row, "second_lunch_end")),
                 "missing second_lunch_end (partial second lunch)")
    \o append_if(notna(get(row, "second_lunch_end"))
                    /\ isna(get(row, "second_lunch_start")),
                 "missing second_lunch_start (partial second lunch)")
    \o append_if(isna(get(row, "wage_rate")), "missing wage_rate")
    \o append_if(isna(get(row, "total_pay_actual")), "missing total_pay_actual")
    \o append_if(isna(get(row, "pay_date")), "missing pay_date")
    \o append_if(isna(get(row, "employment_status")), "missing employment_status")
    \o append_if(isna(get(row, "exempt_status")), "missing exempt_status")
    \o append_if(isna(get(row, "employee_id")), "missing employee_id")
    \o append_if(isna(get(row, "date")), "missing work date")

\* issues.append(row_issues if row_issues else None)
issues_entry(row) ==
    IF row_issues(row) = <<>> THEN None ELSE IssueList(row_issues(row))

\* df["data_issues"] = issues
with_data_issues(frame) ==
    [i \in 1..Len(frame) |->
        [c \in DOMAIN frame[i] \cup {"data_issues"} |->
            IF c = "data_issues" THEN issues_entry(frame[i]) ELSE frame[i][c]]]

\* Variant: only the rows that have an issue are returned.
flag_and_keep_incomplete(frame) ==
    SelectRows(with_data_issues(frame),
        {i \in 1..Len(frame) : notna(issues_entry(frame[i]))})

flag_missing_critical_fields(frame) == with_data_issues(frame)

\* df_evaluated[df_evaluated["data_issues"].notna()]
rows_with_issues(frame) ==
    SelectRows(frame, {i \in 1..Len(frame) : notna(frame[i].data_issues)})

\* DataFrame.to_csv(file_path, index=False): the file it leaves.
to_csv(frame) ==
    File([i \in 1..Len(frame) |-> [c \in Columns(frame[i]) |-> frame[i][c]]])

MaxDqRows == 2

\* Cleaned shifts as load_cleaned_data returns them, differing in what the
\* pipeline steps act on: a clock-in that parses or not, a lunch that ended
\* or not, waivers that are signed, refused or blank.
DqRows ==
    [employee_id : {Str(<<69, 49>>)},
     date : {Ts(1, 0, 0)},
     clock_in : {Ts(1, 480, 0), BadTime},
     clock_out : {Ts(1, 1020, 0)},
     lunch_start : {Ts(1, 720, 0)},
     lunch_end : {Ts(1, 750, 0), NaT},
     second_lunch_start : {NaT},
     second_lunch_end : {NaT},
     wage_rate : {Num(20)},
     total_pay_actual : {Num(160)},
     pay_date : {Ts(5, 0, 0)},
     employment_status : {Str(<<102, 117, 108, 108, 95, 116, 105, 109, 101>>)},
     exempt_status : {Str(<<110, 111, 110, 95, 101, 120, 101, 109, 112, 116>>)},
     first_meal_waiver_signed : {NullBool, Bool(TRUE), Bool(FALSE)},
     second_meal_waiver_signed : {NullBool, Bool(TRUE)}]

\* One shift in every combination of present and missing among the thirteen
\* fields the flagger looks at.
FlagRows ==
    [employee_id : {Str(<<69, 49>>), NullText},
     date : {Ts(1, 0, 0), NaT},
     clock_in : {Ts(1, 480, 0), NaT},
     clock_out : {Ts(1, 1020, 0), NaT},
     lunch_start : {Ts(1, 720, 0), NaT},
     lunch_end : {Ts(1, 750, 0), NaT},
     second_lunch_start : {Ts(1, 900, 0), NaT},
     second_lunch_end : {Ts(1, 930, 0), NaT},
     wage_rate : {Num(20), NaN},
     total_pay_actual : {Num(160), NaN},
     pay_date : {Ts(5, 0, 0), NaT},
     employment_status :
        {Str(<<102, 117, 108, 108, 95, 116, 105, 109, 101>>), NullText},
     exempt_status :
        {Str(<<110, 111, 110, 95, 101, 120, 101, 109, 112, 116>>), NullText},
     first_meal_waiver_signed : {Bool(TRUE)},
     second_meal_waiver_signed : {NullBool}]

InitDq ==
    /\ USE_THREE_KEY = FALSE
    /\ DEDUP_STRATEGY = "keep_best_non_nulls"
    /\ df_dq \in FramesOf(DqRows, MaxDqRows)
                 \cup {WithRangeIndex(<<r>>) : r \in FlagRows}
    /\ pc = "loaded"
    /\ df = <<>>
    /\ df_clean = <<>>
    /\ dup_df = <<>>
    /\ dedup_arg = <<>>
    /\ aux_report = NoFile
    /\ cleaned_file = NoFile
    /\ error = NoError
    /\ df_clean_raw = <<>>
    /\ df_base = <<>>
    /\ df_corr = <<>>
    /\ merged = <<>>
    /\ df_again = <<>>
    /\ flag_arg = <<>>
    /\ incomplete_report = NoFile

\* df = date_and_time_conversions(df)
DateAndTimeConversions ==
    /\ pc = "loaded"
    /\ df_dq' = date_and_time_conversions(df_dq)
    /\ pc' = "converted"
    /\ UNCHANGED <<config, df, df_clean, dup_df, dedup_arg, aux_report, cleaned_file,
                   error, merge_vars, df_again, flag_arg, incomplete_report>>

\* df = fill_missing_waivers_with_false(df)
FillMissingWaivers ==
    /\ pc = "converted"
    /\ df_dq' = fill_missing_waivers_with_false(df_dq)
    /\ pc' = "filled"
    /\ UNCHANGED <<config, df, df_clean, dup_df, dedup_arg, aux_report, cleaned_file,
                   error, merge_vars, df_again, flag_arg, incomplete_report>>

\* df_evaluated = flag_missing_critical_fields(df)
FlagMissingCriticalFields ==
    /\ pc = "filled"
    /\ flag_arg' = df_dq
    /\ df_dq' = flag_missing_critical_fields(df_dq)
    /\ pc' = "flagged"
    /\ UNCHANGED <<config, df, df_clean, dup_df, dedup_arg, aux_report, cleaned_file,
                   error, merge_vars, df_again, incomplete_report>>

\* df_missing = df_evaluated[df_evaluated["data_issues"].notna()]
\* repInc.report_incomplete_rows_global(df_missing, client_name, "testing_test"):
\* it raises FileNotFoundError when the report folder does not exist.
ReportIncompleteRows(folder_exists) ==
    /\ pc = "flagged"
    /\ IF folder_exists
       THEN /\ incomplete_report' = to_csv(rows_with_issues(df_dq))
            /\ pc' = "reported"
            /\ UNCHANGED error
       ELSE /\ error' = [type |-> "FileNotFoundError",
                         what |-> "incomplete_rows folder missing",
                         examples |-> <<>>]
            /\ pc' = "failed"
            /\ UNCHANGED incomplete_report
    /\ UNCHANGED <<config, df, df_clean, dup_df, dedup_arg, aux_report, cleaned_file,
                   merge_vars, df_again, df_dq, flag_arg>>

NextDq ==
    \/ DateAndTimeConversions
    \/ FillMissingWaivers
    \/ FlagMissingCriticalFields
    \/ \E folder_exists \in BOOLEAN : ReportIncompleteRows(folder_exists)

SpecDq == InitDq /\ [][NextDq]_vars

\* =======================================================================
\* Properties
\* =======================================================================
\* The dataset the cleaning steps hand to the report and to the resolver.
Normalized == normalize_key_columns(standardize_text_columns(df, MAPPINGS))

Returned == pc \in {"deduped", "saved"}
AfterDedup == pc \in {"deduped", "saved", "failed"}

KeySet(frame, subset) == {KeyOf(frame[i], subset) : i \in 1..Len(frame)}
Group(frame, subset, k) == {i \in 1..Len(frame) : KeyOf(frame[i], subset) = k}
DuplicatedKeys(frame, subset) ==
    {k \in KeySet(frame, subset) : Cardinality(Group(frame, subset, k)) >= 2}
HasNullComponent(k) == \E i \in 1..Len(k) : isna(k[i])
Max(S) == CHOOSE x \in S : \A y \in S : y <= x

\* Completeness score of a row: its non-missing critical fields.
Completeness(row) ==
    Cardinality({c \in Columns(row) \cap Range(CRITICAL_COLS) : notna(row[c])})

\* The cells of a row without its index label.
Values(row) == [c \in Columns(row) |-> row[c]]

\* C1: under keep_last and keep_best_non_nulls the output of
\* deduplicate_by_strategy holds exactly one row for every composite key of
\* the input (missing key cells counting as one shared value), no key that
\* the input lacks, and only rows of the input.
C1_OneRowPerKey ==
    (Returned /\ DEDUP_STRATEGY \in {"keep_last", "keep_best_non_nulls"}) =>
        /\ \A k \in KeySet(dedup_arg, KEYS) :
               Cardinality(Group(df_clean, KEYS, k)) = 1
        /\ KeySet(df_clean, KEYS) \subseteq KeySet(dedup_arg, KEYS)
        /\ Range(df_clean) \subseteq Range(dedup_arg)

C1_Witness ==
    /\ pc = "deduped"
    /\ DEDUP_STRATEGY = "keep_best_non_nulls"
    /\ Len(df_clean) = 2
    /\ \E k \in DuplicatedKeys(dedup_arg, KEYS) : HasNullComponent(k)

\* C2: under keep_best_non_nulls the survivor of every duplicate group has
\* the group's maximal completeness score and is, among the rows of the group
\* with that score, the one latest in the input.
C2_BestThenLatest ==
    (Returned /\ DEDUP_STRATEGY = "keep_best_non_nulls") =>
        \A k \in DuplicatedKeys(dedup_arg, KEYS) :
            LET g == Group(dedup_arg, KEYS, k)
                best == Max({Completeness(dedup_arg[i]) : i \in g})
                winner == Max({i \in g : Completeness(dedup_arg[i]) = best})
            IN \A j \in Group(df_clean, KEYS, k) : df_clean[j] = dedup_arg[winner]

\* A more complete row arrives before a less complete one of its group and survives.
C2_Witness ==
    /\ pc = "deduped"
    /\ DEDUP_STRATEGY = "keep_best_non_nulls"
    /\ \E k \in DuplicatedKeys(dedup_arg, KEYS) :
        \E j \in Group(df_clean, KEYS, k) :
            \E i \in Group(dedup_arg, KEYS, k) :
                /\ df_clean[j]["index"] < dedup_arg[i]["index"]
                /\ Completeness(df_clean[j]) > Completeness(dedup_arg[i])

\* C5: with an unrecognised DEDUP_STRATEGY deduplicate_by_strategy fails with
\* a configuration error for every input, duplicated keys or not.
C5_UnknownStrategyAlwaysFails ==
    (AfterDedup /\ DEDUP_STRATEGY \notin {"error", "keep_last", "keep_best_non_nulls"}) =>
        /\ pc = "failed"
        /\ error.what = "Unknown DEDUP_STRATEGY"

\* C6: under the error strategy deduplicate_by_strategy fails exactly when a
\* composite key is shared by two or more rows, the failure names every such
\* key (also one with a missing component), and without duplicates the
\* dataset comes back unchanged.
C6_ErrorNamesEveryDuplicatedKey ==
    (AfterDedup /\ DEDUP_STRATEGY = "error") =>
        /\ (pc = "failed") <=> (DuplicatedKeys(dedup_arg, KEYS) # {})
        /\ pc = "failed" =>
               {e.key : e \in Range(error.examples)} = DuplicatedKeys(dedup_arg, KEYS)
        /\ pc # "failed" => df_clean = dedup_arg

\* C7: when the run ends in a duplicate-key or unknown-strategy failure, no
\* output (cleaned dataset, merged dataset, duplicate-key report) was written.
C7_NoOutputBeforeFailure ==
    pc = "failed" => (~aux_report.written /\ ~cleaned_file.written)

\* C8: duplicate_key_report returns one entry per composite key shared by two
\* or more rows and no other entry, each count is the size of the key's
\* group (also for keys with missing components), and the input is untouched.
C8_ReportCoversEveryDuplicateGroup ==
    pc = "reported" =>
        /\ {e.key : e \in Range(dup_df)} = DuplicatedKeys(df_clean, KEYS)
        /\ \A e \in Range(dup_df) :
               e.count = Cardinality(Group(df_clean, KEYS, e.key))
        /\ df_clean = Normalized

\* C9: under keep_last the survivor of every duplicate group is the group's
\* last row in input order; the other rows of the group are gone.
C9_KeepLast ==
    (Returned /\ DEDUP_STRATEGY = "keep_last") =>
        \A k \in DuplicatedKeys(dedup_arg, KEYS) :
            LET last == Max(Group(dedup_arg, KEYS, k))
            IN /\ dedup_arg[last] \in Range(df_clean)
               /\ \A i \in Group(dedup_arg, KEYS, k) \ {last} :
                      dedup_arg[i] \notin Range(df_clean)

C9_Witness ==
    /\ pc = "deduped"
    /\ DEDUP_STRATEGY = "keep_last"
    /\ \E k \in DuplicatedKeys(dedup_arg, KEYS) :
        \E i \in Group(dedup_arg, KEYS, k) :
            /\ dedup_arg[i] \notin Range(df_clean)
            /\ \E j \in 1..Len(df_clean) :
                /\ KeyOf(df_clean[j], KEYS) = k
                /\ Values(df_clean[j]) # Values(dedup_arg[i])

\* C10: under every strategy but error, a row whose composite key is unique
\* in the input is in the output with every cell unchanged, and the output
\* has the input's columns only.
C10_UniqueRowsPassThrough ==
    (Returned /\ DEDUP_STRATEGY # "error") =>
        /\ \A i \in 1..Len(dedup_arg) :
               Cardinality(Group(dedup_arg, KEYS, KeyOf(dedup_arg[i], KEYS))) = 1
                   => dedup_arg[i] \in Range(df_clean)
        /\ \A j \in 1..Len(df_clean) : DOMAIN df_clean[j] = DOMAIN dedup_arg[1]

C10_Witness ==
    /\ pc = "deduped"
    /\ DEDUP_STRATEGY = "keep_best_non_nulls"
    /\ DuplicatedKeys(dedup_arg, KEYS) # {}
    /\ \E i \in 1..Len(dedup_arg) :
        /\ Cardinality(Group(dedup_arg, KEYS, KeyOf(dedup_arg[i], KEYS))) = 1
        /\ dedup_arg[i] \in Range(df_clean)

\* ----------------------------------------------------------------- merge
Merged == pc \in {"merged", "saved"}

\* C3: for every composite key K of merge_corrected_data, the merged dataset
\* holds exactly one row: the correction's row when the correction has K,
\* else the base's row with every cell unchanged; its keys are the union of
\* the keys of the two inputs.
C3_MergeOverride ==
    Merged =>
        /\ \A k \in KeySet(df_corr, MERGE_KEYS) :
               /\ Cardinality(Group(merged, MERGE_KEYS, k)) = 1
               /\ {Values(merged[j]) : j \in Group(merged, MERGE_KEYS, k)}
                      = {Values(df_corr[i]) : i \in Group(df_corr, MERGE_KEYS, k)}
        /\ \A k \in KeySet(df_base, MERGE_KEYS) \ KeySet(df_corr, MERGE_KEYS) :
               /\ Cardinality(Group(merged, MERGE_KEYS, k)) = 1
               /\ \A j \in Group(merged, MERGE_KEYS, k) :
                      Values(merged[j])
                          = Values(df_base[Max(Group(df_base, MERGE_KEYS, k))])
        /\ KeySet(merged, MERGE_KEYS)
               = KeySet(df_base, MERGE_KEYS) \cup KeySet(df_corr, MERGE_KEYS)

\* One key is overridden with different cells, another is kept from the base.
C3_Witness ==
    /\ pc = "merged"
    /\ \E k \in KeySet(df_corr, MERGE_KEYS) \cap KeySet(df_base, MERGE_KEYS) :
        \E i \in Group(df_base, MERGE_KEYS, k) :
            \A j \in Group(merged, MERGE_KEYS, k) :
                Values(merged[j]) # Values(df_base[i])
    /\ KeySet(df_base, MERGE_KEYS) \ KeySet(df_corr, MERGE_KEYS) # {}

\* C4: the merged dataset never holds two rows with the same composite key
\* of the configured key mode (KEYS of inspect_clean_raw).
C4_MergedUniqueOnConfiguredKeys ==
    Merged =>
        \A i, j \in 1..Len(merged) :
            i # j => KeyOf(merged[i], KEYS) # KeyOf(merged[j], KEYS)


\* C11: normalisation is idempotent. A record that went through
\* standardize_text_columns and normalize_key_columns comes out of a second
\* pass of the two unchanged, and a record that went through the merge
\* module's normalize_key_columns comes out of a second pass unchanged; this
\* includes records whose employee_id is missing or whose date or clock_in
\* does not parse.
C11_NormalizationIdempotent ==
    /\ pc = "renormalized" => df_again = df_clean
    /\ pc = "merge_renormalized" => df_again = df_corr

\* A second pass over a record with a missing employee_id and an unparsable
\* date, whose first pass rewrote a status text through its table.
C11_Witness ==
    /\ pc = "renormalized"
    /\ isna(df[1].employee_id)
    /\ df[1].date = BadTime
    /\ df[1].employment_status = Str(<<80, 84>>)
    /\ df_clean[1].employment_status # df[1].employment_status


\* Two characters that are the same letter in either case, or equal.
SameCharIgnoringCase(c, d) ==
    \/ c = d
    \/ c \in 65..90 /\ d = c + 32
    \/ d \in 65..90 /\ c = d + 32

\* The text between the first and the last non-blank character.
Core(s) ==
    LET solid == {i \in 1..Len(s) : s[i] \notin {32, 9, 10, 13}}
    IN IF solid = {} THEN <<>>
       ELSE SubSeq(s, CHOOSE i \in solid : \A j \in solid : i <= j,
                      CHOOSE i \in solid : \A j \in solid : j <= i)

SameIdSpelling(a, b) ==
    /\ a.kind = "str" /\ b.kind = "str"
    /\ Len(Core(a.s)) = Len(Core(b.s))
    /\ \A i \in 1..Len(Core(a.s)) : SameCharIgnoringCase(Core(a.s)[i], Core(b.s)[i])

\* Two raw records whose key fields differ at most in the letter case and the
\* padding of employee_id, the time of day of date, and (clock_in being part
\* of the key) the seconds of clock_in.
DifferOnlyInSpelling(a, b) ==
    /\ SameIdSpelling(a.employee_id, b.employee_id)
    /\ a.date.kind = "ts" /\ b.date.kind = "ts" /\ a.date.day = b.date.day
    /\ USE_THREE_KEY =>
          /\ a.clock_in.kind = "ts" /\ b.clock_in.kind = "ts"
          /\ a.clock_in.day = b.clock_in.day
          /\ a.clock_in.minute = b.clock_in.minute

\* C12: raw records whose key fields differ only in the letter case or the
\* surrounding whitespace of employee_id, the time of day of date, or the
\* seconds of clock_in have equal composite keys after normalize_key_columns;
\* the resolver that runs next does not fail under keep_last and
\* keep_best_non_nulls, and whenever it returns, its output holds exactly one
\* record with that key.
C12_SpellingsShareOneKey ==
    /\ \A i, j \in 1..Len(df) :
          DifferOnlyInSpelling(df[i], df[j]) =>
             /\ pc = "normalized" =>
                   KeyOf(df_clean[i], KEYS) = KeyOf(df_clean[j], KEYS)
             /\ Returned =>
                   Cardinality({k \in 1..Len(df_clean) :
                       KeyOf(df_clean[k], KEYS) = KeyOf(dedup_arg[i], KEYS)}) = 1
    /\ (AfterDedup /\ DEDUP_STRATEGY \in {"keep_last", "keep_best_non_nulls"})
          => Returned

\* Two records that differ in all four spellings at once, under the
\* three-column key, collapsed into one by the resolver.
C12_Witness ==
    /\ Returned
    /\ USE_THREE_KEY
    /\ Len(df) = 2
    /\ DifferOnlyInSpelling(df[1], df[2])
    /\ df[1].employee_id # df[2].employee_id
    /\ df[1].date # df[2].date
    /\ df[1].clock_in # df[2].clock_in
    /\ Len(df_clean) = 1


\* ------------------------------------------------------- flagging
Flagged == pc \in {"flagged", "reported", "failed"}

\* A row without its issue list.
WithoutIssues(row) == [c \in DOMAIN row \ {"data_issues"} |-> row[c]]

\* C13: flag_missing_critical_fields never removes, adds or reorders a
\* record: its output has as many records as its input, in the same order,
\* and every field of every record other than the added data_issues is what
\* it was.
C13_FlaggingKeepsEveryRecord ==
    Flagged =>
        /\ Len(df_dq) = Len(flag_arg)
        /\ \A i \in 1..Len(df_dq) :
              /\ "data_issues" \in DOMAIN df_dq[i]
              /\ WithoutIssues(df_dq[i]) = flag_arg[i]

\* Two records flagged, the first with an issue and the second without.
C13_Witness ==
    /\ Flagged
    /\ Len(flag_arg) = 2
    /\ df_dq[1].data_issues.kind = "list"
    /\ df_dq[2].data_issues.kind = "null"

\* The thirteen rules in their order: the code each one reports ...
RuleCodes ==
    <<"missing clock_in",
      "missing clock_out",
      "missing lunch_end (partial lunch)",
      "missing lunch_start (partial lunch)",
      "missing second_lunch_end (partial second lunch)",
      "missing second_lunch_start (partial second lunch)",
      "missing wage_rate",
      "missing total_pay_actual",
      "missing pay_date",
      "missing employment_status",
      "missing exempt_status",
      "missing employee_id",
      "missing work date">>

Absent(row, col) == col \notin DOMAIN row \/ row[col].kind = "null"

\* ... and the rows that trigger each one.
RuleTriggered(k, row) ==
    CASE k = 1 -> Absent(row, "clock_in")
      [] k = 2 -> Absent(row, "clock_out")
      [] k = 3 -> ~Absent(row, "lunch_start") /\ Absent(row, "lunch_end")
      [] k = 4 -> ~Absent(row, "lunch_end") /\ Absent(row, "lunch_start")
      [] k = 5 -> ~Absent(row, "second_lunch_start") /\ Absent(row, "second_lunch_end")
      [] k = 6 -> ~Absent(row, "second_lunch_end") /\ Absent(row, "second_lunch_start")
      [] k = 7 -> Absent(row, "wage_rate")
      [] k = 8 -> Absent(row, "total_pay_actual")
      [] k = 9 -> Absent(row, "pay_date")
      [] k = 10 -> Absent(row, "employment_status")
      [] k = 11 -> Absent(row, "exempt_status")
      [] k = 12 -> Absent(row, "employee_id")
      [] k = 13 -> Absent(row, "date")

\* C14: the issue list of a flagged record holds exactly one code for each
\* of the thirteen rules the record triggers, in rule order, and no code of a
\* rule it does not trigger; a record that triggers no rule gets the no-issue
\* marker, so no issue list is empty.
C14_IssueListMatchesTriggeredRules ==
    Flagged =>
        \A i \in 1..Len(df_dq) :
            LET issues == df_dq[i].data_issues
                fired == {k \in 1..Len(RuleCodes) : RuleTriggered(k, flag_arg[i])}
            IN IF fired = {}
               THEN issues = None
               ELSE /\ issues.kind = "list"
                    /\ issues.codes # <<>>
                    /\ Len(issues.codes) = Cardinality(fired)
                    /\ \A k \in fired :
                          \E n \in 1..Len(issues.codes) : issues.codes[n] = RuleCodes[k]
                    /\ \A m, n \in 1..Len(issues.codes) :
                          m < n =>
                             \E k, l \in fired :
                                /\ k < l
                                /\ issues.codes[m] = RuleCodes[k]
                                /\ issues.codes[n] = RuleCodes[l]

\* A record with a lunch that never ended, a second lunch that never started
\* and no employee id: three codes, in rule order.
C14_Witness ==
    /\ Flagged
    /\ Len(df_dq) = 1
    /\ df_dq[1].data_issues =
          IssueList(<<"missing lunch_end (partial lunch)",
                      "missing second_lunch_start (partial second lunch)",
                      "missing employee_id">>)

WaiverColumns == {"first_meal_waiver_signed", "second_meal_waiver_signed"}

\* C15: in check_dq_all the waiver defaulting runs before the flagging. The
\* flagger is only ever called on a frame in which every record's two waiver
\* fields are non-null, the defaulting step having turned each missing waiver
\* into False and left the others alone; and every code in an issue list is
\* one of the thirteen rule codes, none of which is about a waiver field.
C15_WaiversDefaultedBeforeFlagging ==
    /\ [](Flagged =>
            \A i \in 1..Len(flag_arg) :
               /\ \A c \in WaiverColumns : flag_arg[i][c].kind = "bool"
               /\ \A n \in 1..Len(df_dq[i].data_issues.codes) :
                     /\ df_dq[i].data_issues.codes[n] \in Range(RuleCodes)
                     /\ df_dq[i].data_issues.codes[n] \notin
                           {"missing first_meal_waiver_signed",
                            "missing second_meal_waiver_signed"})
    /\ [][pc' = "flagged" => pc = "filled"]_vars
    /\ [][pc' = "filled" =>
            /\ Len(df_dq') = Len(df_dq)
            /\ \A i \in 1..Len(df_dq) : \A c \in WaiverColumns :
                  df_dq'[i][c] = IF df_dq[i][c].kind = "null"
                                 THEN Bool(FALSE) ELSE df_dq[i][c]]_vars

\* A record whose second waiver was blank in the file (no input has it
\* refused) reaches the flagger as not signed, and is flagged for something
\* else.
C15_Witness ==
    /\ Flagged
    /\ \E i \in 1..Len(flag_arg) :
          /\ flag_arg[i].second_meal_waiver_signed = Bool(FALSE)
          /\ df_dq[i].data_issues.kind = "list"


\* ------------------------------------------------------- text standardisation
\* The cleaned form of a text: trimmed, lower-cased, with '-', ' ' and '/'
\* written as '_'.
CleanedForm(s) ==
    [n \in 1..Len(Core(s)) |->
        IF Core(s)[n] \in 65..90 THEN Core(s)[n] + 32
        ELSE IF Core(s)[n] \in {45, 32, 47} THEN 95
        ELSE Core(s)[n]]

\* C16: after standardize_text_columns, in every configured column a
\* non-missing value v has become table[c] when its cleaned form c is a key of
\* the column's table and c otherwise; a missing value is still missing, not
\* a text; and the columns outside the configured set are as they were.
C16_StandardizedText ==
    pc = "standardized" =>
        /\ Len(df_clean) = Len(df)
        /\ \A i \in 1..Len(df) :
              /\ DOMAIN df_clean[i] = DOMAIN df[i]
              /\ \A col \in DOMAIN df[i] \ DOMAIN MAPPINGS :
                    df_clean[i][col] = df[i][col]
              /\ \A col \in DOMAIN df[i] \cap DOMAIN MAPPINGS :
                    IF df[i][col].kind = "null"
                    THEN df_clean[i][col].kind = "null"
                    ELSE LET c == CleanedForm(df[i][col].s)
                             hits == {p \in MAPPINGS[col] : p[1] = c}
                         IN /\ df_clean[i][col].kind = "str"
                            /\ hits # {} => \A p \in hits : df_clean[i][col].s = p[2]
                            /\ hits = {} => df_clean[i][col].s = c

\* " F/T" found in its table as f_t, "Non-Exempt" cleaned to a text that is
\* no key of its table, and a padded employee_id left alone.
C16_Witness ==
    /\ pc = "standardized"
    /\ df[1].employment_status = Str(<<32, 70, 47, 84>>)
    /\ df_clean[1].employment_status =
          Str(<<102, 117, 108, 108, 95, 116, 105, 109, 101>>)
    /\ df[1].exempt_status = Str(<<78, 111, 110, 45, 69, 120, 101, 109, 112, 116>>)
    /\ df_clean[1].exempt_status =
          Str(<<110, 111, 110, 95, 101, 120, 101, 109, 112, 116>>)
    /\ df_clean[1].employee_id = Str(<<32, 69, 49, 32>>)

\* C17: after the key normalisation of the cleaning pipeline a record whose
\* employee_id was missing still has a missing employee_id, so that the
\* flagger reports "missing employee_id" for it; a date or clock_in that does
\* not parse has become missing; and no record was dropped.
C17_MissingIdStaysMissing ==
    pc = "normalized" =>
        /\ Len(df_clean) = Len(df)
        /\ \A i \in 1..Len(df) :
              /\ df[i].date.kind = "bad" => df_clean[i].date.kind = "null"
              /\ (USE_THREE_KEY /\ df[i].clock_in.kind = "bad")
                    => df_clean[i].clock_in.kind = "null"
              /\ df[i].employee_id.kind = "null" =>
                    /\ df_clean[i].employee_id.kind = "null"
                    /\ \E n \in 1..Len(row_issues(df_clean[i])) :
                          row_issues(df_clean[i])[n] = "missing employee_id"

====
